---- MODULE Spec2Model ----
(***************************************************************************)
(* Emulator session harness of ai-os-dev.                                  *)
(*                                                                         *)
(* Two session objects are modelled, one per behaviour:                    *)
(*   kind = "runner"   QEMURunner  (tests/conftest.py): start, stop, send, *)
(*                     read_line, read_until and the background _reader    *)
(*                     threads;                                            *)
(*   kind = "manager"  QEMUManager (setup.py) with the flash, reset,       *)
(*                     serial and status verbs.                            *)
(* Both hold the fields process and serial.  Time is counted in ticks of   *)
(* 0.05 s while a consumer call is blocked on the queue.                   *)
(***************************************************************************)
EXTENDS Integers, Sequences, FiniteSets, TLC

\* ------------------------------------------------------------------ bounds
MaxStarts == 2          \* subprocess launches in one behaviour
MaxSessions == 1        \* launches in a behaviour that follows the reader threads
MaxBytes == 3           \* bytes the emulators emit in one behaviour
MaxTimeout == 2         \* largest timeout (ticks) given to read_line / read_until
MaxStartTimeout == 2    \* largest timeout given to start, in connect attempts

\* --------------------------------------------------------------- constants
NL == 10                \* b'\n'
Poll == 2               \* read_until's sub-timeout read_line(timeout=0.1), in ticks
None == 0

Text == {10, 97, 98}        \* the bytes of the emulators that consumers read from
Raw == {10, 32, 97}         \* the bytes of the emulators whose framing is followed
Whitespace == {9, 10, 11, 12, 13, 32}
Patterns == {<<97>>}
Ids == 1..MaxStarts

RECURSIVE SeqsUpTo(_, _)
SeqsUpTo(B, n) ==
  IF n = 0 THEN {<<>>}
  ELSE LET prev == SeqsUpTo(B, n - 1)
       IN prev \cup {Append(s, b) : s \in {x \in prev : Len(x) = n - 1}, b \in B}

\* ------------------------------------------------------- the line framer
RECURSIVE LStrip(_)
LStrip(s) == IF s # <<>> /\ Head(s) \in Whitespace THEN LStrip(Tail(s)) ELSE s

RECURSIVE RStrip(_)
RStrip(s) ==
  IF s # <<>> /\ s[Len(s)] \in Whitespace THEN RStrip(SubSeq(s, 1, Len(s) - 1)) ELSE s

\* bytes.strip(): leading and trailing ASCII whitespace removed
strip(s) == RStrip(LStrip(s))

\* index of the first b in s, 0 when absent
IndexOf(s, b) ==
  IF \E i \in 1..Len(s) : s[i] = b
  THEN CHOOSE i \in 1..Len(s) : s[i] = b /\ \A j \in 1..(i - 1) : s[j] # b
  ELSE 0

\* buffer += data
AccumulateDrop(buf, data) == data
Accumulate(buf, data) == buf \o data

\* while b'\n' in buffer: line, buffer = buffer.split(b'\n', 1); put(line.strip())
RECURSIVE FrameLoopFlush(_, _)
FrameLoopFlush(buf, out) ==
  LET i == IndexOf(buf, NL)
  IN IF i = 0
     THEN [lines |-> IF buf = <<>> THEN out ELSE Append(out, strip(buf)),
           buffer |-> <<>>]
     ELSE FrameLoopFlush(SubSeq(buf, i + 1, Len(buf)),
                         Append(out, strip(SubSeq(buf, 1, i - 1))))
RECURSIVE FrameLoop(_, _)
FrameLoop(buf, out) ==
  LET i == IndexOf(buf, NL)
  IN IF i = 0 THEN [lines |-> out, buffer |-> buf]
     ELSE FrameLoop(SubSeq(buf, i + 1, Len(buf)),
                    Append(out, strip(SubSeq(buf, 1, i - 1))))

\* expected.encode() in line
Contains(line, pat) ==
  \E i \in 0..(Len(line) - Len(pat)) : SubSeq(line, i + 1, i + Len(pat)) = pat

\* ------------------------------------------------------------------ state
VARIABLES
  kind,          \* which session object this behaviour exercises
  process,       \* self.process: None or the id of a launched subprocess
  serial,        \* self.serial: None or the id of a socket object
  procState,     \* subprocess id -> "none" | "live" | "exited"
  sockState,     \* socket id -> "none" | "unconn" | "conn" | "closed"
  nstarts,       \* subprocesses launched so far
  budget,        \* bytes the emulators may still emit
  output_queue,  \* self.output_queue
  rpc,           \* reader thread id -> "none" | "loop" | "recv" | "pass" | "done"
  rsock,         \* reader thread id -> socket object its recv() is called on
  buffer,        \* reader thread id -> its local buffer
  got,           \* reader thread id -> all bytes its recv() calls returned
  put,           \* reader thread id -> all lines it put on the queue
  nrecv,         \* reader thread id -> number of recv() calls that returned data
  refbuf,        \* socket id -> the unterminated bytes received from it so far
  owed,          \* the lines of the byte streams received so far, framed in one
                 \* pass per connection, less one line for each line dequeued
  mpc,           \* position of the caller's thread
  lastOp,        \* the operation called last
  lastResult,    \* how it ended
  ret,           \* its return value
  now,           \* ticks since the running consumer call began
  rlDeadline,    \* when the running output_queue.get(timeout) gives up
  ruTimeout,     \* read_until: timeout
  expected,      \* read_until: expected
  lines,         \* read_until: lines
  ruDeq,         \* every line the running or last consumer call dequeued
  ruOwed         \* the lines of owed that stood at the head when it did

resVars == <<process, serial, procState, sockState, nstarts, budget>>
thrVars == <<rpc, rsock, buffer, got, put, nrecv, refbuf>>
callVars == <<now, rlDeadline, ruTimeout, expected, lines, ruDeq, ruOwed>>
vars == <<kind, process, serial, procState, sockState, nstarts, budget,
          output_queue, owed, rpc, rsock, buffer, got, put, nrecv, refbuf,
          mpc, lastOp, lastResult, ret, now, rlDeadline, ruTimeout, expected,
          lines, ruDeq, ruOwed>>

NoValue == [tag |-> "None", val |-> <<>>]

\* QEMURunner.__init__ / QEMUManager.__init__
Init ==
  /\ kind \in {"runner", "manager"}
  /\ process = None
  /\ serial = None
  /\ procState = [p \in Ids |-> "none"]
  /\ sockState = [s \in Ids |-> "none"]
  /\ nstarts = 0
  /\ budget = MaxBytes
  /\ output_queue = <<>>
  /\ rpc = [t \in Ids |-> "none"]
  /\ rsock = [t \in Ids |-> None]
  /\ buffer = [t \in Ids |-> <<>>]
  /\ got = [t \in Ids |-> <<>>]
  /\ put = [t \in Ids |-> <<>>]
  /\ nrecv = [t \in Ids |-> 0]
  /\ refbuf = [s \in Ids |-> <<>>]
  /\ owed = <<>>
  /\ mpc = "idle"
  /\ lastOp = "init"
  /\ lastResult = "returned"
  /\ ret = NoValue
  /\ now = 0
  /\ rlDeadline = 0
  /\ ruTimeout = 0
  /\ expected = <<>>
  /\ lines = <<>>
  /\ ruDeq = <<>>
  /\ ruOwed = <<>>

\* ------------------------------------------------ QEMURunner.stop / start
\* the resources as a record, so that start can continue from what stop left
Resources ==
  [process |-> process, serial |-> serial, procState |-> procState,
   sockState |-> sockState, raised |-> FALSE]

\* stop(): w says whether the subprocess exits within wait(timeout=5)
stopKeepsSerial(w) ==
  LET exits == process # None /\ (procState[process] = "exited" \/ w = "exits")
  IN [serial |-> serial,
      sockState |-> IF serial # None THEN [sockState EXCEPT ![serial] = "closed"]
                    ELSE sockState,
      process |-> IF process # None /\ ~exits THEN process ELSE None,
      procState |-> IF process # None /\ exits
                    THEN [procState EXCEPT ![process] = "exited"] ELSE procState,
      raised |-> process # None /\ ~exits]
stop(w) ==
  LET exits == process # None /\ (procState[process] = "exited" \/ w = "exits")
  IN [serial |-> None,
      sockState |-> IF serial # None THEN [sockState EXCEPT ![serial] = "closed"]
                    ELSE sockState,
      process |-> IF process # None /\ ~exits THEN process ELSE None,
      procState |-> IF process # None /\ exits
                    THEN [procState EXCEPT ![process] = "exited"] ELSE procState,
      raised |-> process # None /\ ~exits]

\* f without the entry of the socket self.serial names: nothing more is
\* received from a closed socket
Dropped(f) == IF serial # None THEN [f EXCEPT ![serial] = <<>>] ELSE f

\* if self.process: self.stop()
NeedsStopNever(proc) == FALSE
NeedsStop(proc) == proc # None

ConnectOutcomes == {"sockerr", "refused", "ok"}

\* the retry loop of start: ser is [id, st], the socket self.serial names
RECURSIVE ConnectLoop(_, _, _)
ConnectLoop(attempts, ser, new) ==
  IF attempts = <<>> THEN ser
  ELSE IF Head(attempts) = "sockerr" THEN ConnectLoop(Tail(attempts), ser, new)
  ELSE IF Head(attempts) = "refused"
       THEN ConnectLoop(Tail(attempts), [id |-> new, st |-> "unconn"], new)
  ELSE [id |-> new, st |-> "conn"]

\* if not self.serial: raise RuntimeError(...)
NotConnectedTest(ser) == ser.id = None

\* no consumer call is running: the locals of the last one are gone
NoCall ==
  /\ now' = 0 /\ rlDeadline' = 0 /\ ruTimeout' = 0
  /\ expected' = <<>> /\ lines' = <<>> /\ ruDeq' = <<>> /\ ruOwed' = <<>>

Stop(w) ==
  /\ kind = "runner" /\ mpc = "idle"
  /\ LET st == stop(w)
     IN /\ process' = st.process
        /\ serial' = st.serial
        /\ procState' = st.procState
        /\ sockState' = st.sockState
        /\ lastResult' = IF st.raised THEN "TimeoutExpired" ELSE "returned"
  /\ refbuf' = Dropped(refbuf)
  /\ lastOp' = "stop"
  /\ ret' = NoValue
  /\ UNCHANGED <<kind, nstarts, budget, output_queue, owed, mpc>>
  /\ UNCHANGED <<rpc, rsock, buffer, got, put, nrecv>>
  /\ NoCall

Start(timeout, launch, attempts, w) ==
  /\ kind = "runner" /\ mpc = "idle" /\ nstarts < MaxStarts
  /\ lastOp' = "start"
  /\ ret' = NoValue
  /\ LET st == IF NeedsStop(process) THEN stop(w) ELSE Resources
         p == nstarts + 1
         ser == ConnectLoop(attempts, [id |-> st.serial, st |-> "old"], p)
     IN /\ refbuf' = IF NeedsStop(process) THEN Dropped(refbuf) ELSE refbuf
        /\ IF st.raised \/ ~launch
           THEN \* stop() raised TimeoutExpired, or Popen raised
                /\ process' = st.process
                /\ serial' = st.serial
                /\ procState' = st.procState
                /\ sockState' = st.sockState
                /\ lastResult' = IF st.raised THEN "TimeoutExpired"
                                  ELSE "FileNotFoundError"
                /\ UNCHANGED <<nstarts, rpc, buffer>>
           ELSE /\ process' = p
                /\ procState' = [st.procState EXCEPT ![p] = "live"]
                /\ nstarts' = p
                /\ serial' = ser.id
                /\ sockState' = IF ser.id = p THEN [st.sockState EXCEPT ![p] = ser.st]
                                ELSE st.sockState
                /\ IF NotConnectedTest(ser)
                   THEN /\ lastResult' = "RuntimeError"
                        /\ UNCHANGED <<rpc, buffer>>
                   ELSE /\ lastResult' = "returned"
                        /\ rpc' = [rpc EXCEPT ![p] = "loop"]
                        /\ buffer' = [buffer EXCEPT ![p] = <<>>]
  /\ UNCHANGED <<kind, budget, output_queue, owed, mpc>>
  /\ UNCHANGED <<rsock, got, put, nrecv>>
  /\ NoCall

\* --------------------------------------------------- QEMURunner._reader
\* the thread function returns: the thread and its locals are gone
ReaderExit(t) ==
  /\ rpc' = [rpc EXCEPT ![t] = "done"]
  /\ rsock' = [rsock EXCEPT ![t] = None]
  /\ buffer' = [buffer EXCEPT ![t] = <<>>]
  /\ got' = [got EXCEPT ![t] = <<>>]
  /\ put' = [put EXCEPT ![t] = <<>>]
  /\ nrecv' = [nrecv EXCEPT ![t] = 0]

\* while self.serial: ... self.serial.recv: the loop test and the attribute read
\* of the recv call, taken as one read of self.serial (a None seen by the second
\* read raises AttributeError, which the bare except turns into the same break)
ReaderCheck(t) ==
  /\ rpc[t] \in {"loop", "pass"}
  /\ IF serial = None
     THEN ReaderExit(t)
     ELSE /\ rpc' = [rpc EXCEPT ![t] = "recv"]
          /\ rsock' = [rsock EXCEPT ![t] = serial]
          /\ UNCHANGED <<buffer, got, put, nrecv>>
  /\ UNCHANGED <<kind, output_queue, owed, mpc, lastOp, lastResult, ret,
                 refbuf>>
  /\ UNCHANGED resVars
  /\ UNCHANGED callVars

\* data = recv(1024) with data non-empty: the next bytes the emulator emits
ReaderData(t, data) ==
  /\ rpc[t] = "recv"
  /\ sockState[rsock[t]] = "conn"
  /\ procState[rsock[t]] = "live"
  /\ data # <<>> /\ Len(data) <= budget
  /\ budget' = budget - Len(data)
  /\ LET s == rsock[t]
         fr == FrameLoop(Accumulate(buffer[t], data), <<>>)
     IN /\ buffer' = [buffer EXCEPT ![t] = fr.buffer]
        /\ output_queue' = output_queue \o fr.lines
        /\ got' = [got EXCEPT ![t] = got[t] \o data]
        /\ put' = [put EXCEPT ![t] = put[t] \o fr.lines]
        /\ refbuf' = [refbuf EXCEPT ![s] = FrameLoop(refbuf[s] \o data, <<>>).buffer]
        /\ owed' = owed \o FrameLoop(refbuf[s] \o data, <<>>).lines
        /\ nrecv' = [nrecv EXCEPT ![t] = nrecv[t] + 1]
  /\ rpc' = [rpc EXCEPT ![t] = "loop"]
  /\ UNCHANGED <<kind, process, serial, procState, sockState, nstarts, mpc,
                 lastOp, lastResult, ret, rsock>>
  /\ UNCHANGED callVars

\* recv returned b'': the emulator end of a connected socket is closed
Eof(s) == sockState[s] = "conn" /\ procState[s] = "exited"

\* socket.timeout -> pass; or recv returned b'' and `if data:` skips the framing
ReaderIdleBreaks(t) ==
  /\ rpc[t] = "recv"
  /\ \/ sockState[rsock[t]] = "conn" /\ procState[rsock[t]] = "live"
     \/ Eof(rsock[t])
     \/ sockState[rsock[t]] = "closed"
  /\ ReaderExit(t)
  /\ UNCHANGED <<kind, output_queue, owed, mpc, lastOp, lastResult, ret,
                 refbuf>>
  /\ UNCHANGED resVars
  /\ UNCHANGED callVars
ReaderIdle(t) ==
  /\ rpc[t] = "recv"
  /\ \/ sockState[rsock[t]] = "conn" /\ procState[rsock[t]] = "live"
     \/ Eof(rsock[t])
     \/ sockState[rsock[t]] = "closed"
  /\ rpc' = [rpc EXCEPT ![t] = IF Eof(rsock[t]) THEN "loop" ELSE "pass"]
  /\ UNCHANGED <<kind, output_queue, owed, mpc, lastOp, lastResult, ret,
                 rsock, buffer, got, put, nrecv, refbuf>>
  /\ UNCHANGED resVars
  /\ UNCHANGED callVars

\* except: break  (socket never connected, closed by stop, or reset by the peer)
ReaderErrorDrops(t) ==
  /\ rpc[t] = "recv"
  /\ \/ sockState[rsock[t]] \in {"unconn", "closed"}
     \/ sockState[rsock[t]] = "conn" /\ procState[rsock[t]] = "exited"
  /\ ReaderExit(t)
  /\ output_queue' = <<>>
  /\ owed' = <<>>
  /\ UNCHANGED <<kind, mpc, lastOp, lastResult, ret, refbuf>>
  /\ UNCHANGED resVars
  /\ UNCHANGED callVars
ReaderError(t) ==
  /\ rpc[t] = "recv"
  /\ \/ sockState[rsock[t]] \in {"unconn", "closed"}
     \/ sockState[rsock[t]] = "conn" /\ procState[rsock[t]] = "exited"
  /\ ReaderExit(t)
  /\ UNCHANGED <<kind, output_queue, owed, mpc, lastOp, lastResult, ret,
                 refbuf>>
  /\ UNCHANGED resVars
  /\ UNCHANGED callVars

\* the emulator subprocess exits by itself
ProcExit(p) ==
  /\ procState[p] = "live"
  /\ mpc # "hung"
  /\ procState' = [procState EXCEPT ![p] = "exited"]
  /\ UNCHANGED <<kind, process, serial, sockState, nstarts, budget,
                 output_queue, owed, mpc, lastOp, lastResult, ret>>
  /\ UNCHANGED thrVars
  /\ UNCHANGED callVars

\* ----------------------------------------------------- QEMURunner.send
\* self.serial.send(data): err says whether the kernel reports a broken pipe
Send(err) ==
  /\ kind = "runner" /\ mpc = "idle"
  /\ lastOp' = "send"
  /\ ret' = NoValue
  /\ lastResult' =
       IF serial = None THEN "AttributeError"
       ELSE IF sockState[serial] # "conn" THEN "OSError"
       ELSE IF procState[serial] = "exited" /\ err THEN "OSError"
       ELSE "returned"
  /\ UNCHANGED <<kind, output_queue, owed, mpc>>
  /\ UNCHANGED resVars
  /\ UNCHANGED thrVars
  /\ NoCall

\* ------------------------------------------------ QEMURunner.read_line
\* the first element of a sequence as a sequence, and what follows it
First(q) == IF q = <<>> THEN <<>> ELSE <<Head(q)>>
Rest(q) == IF q = <<>> THEN <<>> ELSE Tail(q)

\* the item output_queue.get hands out
QueueGetLast(q) == q[Len(q)]
QueueGet(q) == Head(q)

ReadLineCall(timeout) ==
  /\ kind = "runner" /\ mpc = "idle"
  /\ mpc' = "rl"
  /\ lastOp' = "read_line"
  /\ lastResult' = "running"
  /\ ret' = NoValue
  /\ now' = 0
  /\ rlDeadline' = timeout
  /\ lines' = <<>>
  /\ ruDeq' = <<>>
  /\ ruOwed' = <<>>
  /\ expected' = <<>>
  /\ UNCHANGED <<kind, output_queue, owed, ruTimeout>>
  /\ UNCHANGED resVars
  /\ UNCHANGED thrVars

\* return self.output_queue.get(timeout=timeout)
ReadLineGet ==
  /\ mpc = "rl"
  /\ output_queue # <<>>
  /\ ret' = [tag |-> "line", val |-> <<QueueGet(output_queue)>>]
  /\ output_queue' = Tail(output_queue)
  /\ owed' = Rest(owed)
  /\ ruDeq' = <<QueueGet(output_queue)>>
  /\ ruOwed' = First(owed)
  /\ lastResult' = "returned"
  /\ mpc' = "idle"
  /\ now' = 0
  /\ rlDeadline' = 0
  /\ UNCHANGED <<kind, lastOp, ruTimeout, expected, lines>>
  /\ UNCHANGED resVars
  /\ UNCHANGED thrVars

\* except queue.Empty: return None
ReadLineEmpty ==
  /\ mpc = "rl"
  /\ output_queue = <<>>
  /\ now >= rlDeadline
  /\ ret' = NoValue
  /\ lastResult' = "returned"
  /\ mpc' = "idle"
  /\ now' = 0
  /\ rlDeadline' = 0
  /\ UNCHANGED <<kind, lastOp, output_queue, owed, ruTimeout, expected, lines, ruDeq, ruOwed>>
  /\ UNCHANGED resVars
  /\ UNCHANGED thrVars

\* time passes while the caller is blocked in output_queue.get
Tick ==
  /\ mpc \in {"rl", "ru_get"}
  /\ output_queue = <<>>
  /\ now < rlDeadline
  /\ now' = now + 1
  /\ UNCHANGED <<kind, output_queue, owed, mpc, lastOp, lastResult, ret,
                 rlDeadline, ruTimeout, expected, lines, ruDeq, ruOwed>>
  /\ UNCHANGED resVars
  /\ UNCHANGED thrVars

\* ----------------------------------------------- QEMURunner.read_until
\* while time.time() - start_time < timeout
InTimeAlways(elapsed, timeout) == TRUE
InTime(elapsed, timeout) == elapsed < timeout

\* if line:
Truthy(line) == line # <<>>

\* if expected.encode() in line: return lines
FoundNever(line, pat) == FALSE
Found(line, pat) == Contains(line, pat)

ReadUntilCall(pat, timeout) ==
  /\ kind = "runner" /\ mpc = "idle"
  /\ mpc' = "ru_loop"
  /\ lastOp' = "read_until"
  /\ lastResult' = "running"
  /\ ret' = NoValue
  /\ now' = 0
  /\ ruTimeout' = timeout
  /\ expected' = pat
  /\ lines' = <<>>
  /\ ruDeq' = <<>>
  /\ ruOwed' = <<>>
  /\ UNCHANGED <<kind, output_queue, owed, rlDeadline>>
  /\ UNCHANGED resVars
  /\ UNCHANGED thrVars

\* the loop test: another read_line(timeout=0.1), or return lines
ReadUntilLoop ==
  /\ mpc = "ru_loop"
  /\ IF InTime(now, ruTimeout)
     THEN /\ mpc' = "ru_get"
          /\ rlDeadline' = now + Poll
          /\ UNCHANGED <<ret, lastResult, now, ruTimeout>>
     ELSE /\ mpc' = "idle"
          /\ ret' = [tag |-> "timeout", val |-> lines]
          /\ lastResult' = "returned"
          /\ now' = 0
          /\ ruTimeout' = 0
          /\ UNCHANGED rlDeadline
  /\ UNCHANGED <<kind, lastOp, output_queue, owed, expected, lines, ruDeq, ruOwed>>
  /\ UNCHANGED resVars
  /\ UNCHANGED thrVars

\* read_line returned a line
ReadUntilGet ==
  /\ mpc = "ru_get"
  /\ output_queue # <<>>
  /\ LET line == QueueGet(output_queue)
         kept == IF Truthy(line) THEN Append(lines, line) ELSE lines
     IN /\ output_queue' = Tail(output_queue)
        /\ owed' = Rest(owed)
        /\ ruDeq' = Append(ruDeq, line)
        /\ ruOwed' = ruOwed \o First(owed)
        /\ lines' = kept
        /\ IF Truthy(line) /\ Found(line, expected)
           THEN /\ mpc' = "idle"
                /\ ret' = [tag |-> "found", val |-> kept]
                /\ lastResult' = "returned"
                /\ now' = 0
                /\ ruTimeout' = 0
           ELSE /\ mpc' = "ru_loop"
                /\ UNCHANGED <<ret, lastResult, now, ruTimeout>>
  /\ rlDeadline' = 0
  /\ UNCHANGED <<kind, lastOp, expected>>
  /\ UNCHANGED resVars
  /\ UNCHANGED thrVars

\* read_line returned None
ReadUntilEmpty ==
  /\ mpc = "ru_get"
  /\ output_queue = <<>>
  /\ now >= rlDeadline
  /\ mpc' = "ru_loop"
  /\ rlDeadline' = 0
  /\ UNCHANGED <<kind, lastOp, lastResult, ret, output_queue, owed,
                 now, ruTimeout, expected, lines, ruDeq, ruOwed>>
  /\ UNCHANGED resVars
  /\ UNCHANGED thrVars

\* ------------------------------------------------------------ QEMUManager
\* stop_qemu(): w says whether the subprocess ever exits after terminate();
\* wait() has no timeout, so a subprocess that never exits blocks the caller
stop_qemu(R, w) ==
  LET exits == R.process # None /\ (R.procState[R.process] = "exited" \/ w = "exits")
      hung == R.process # None /\ ~exits
  IN [process |-> IF hung THEN R.process ELSE None,
      procState |-> IF exits THEN [R.procState EXCEPT ![R.process] = "exited"]
                    ELSE R.procState,
      serial |-> IF hung THEN R.serial ELSE None,
      sockState |-> IF ~hung /\ R.serial # None
                    THEN [R.sockState EXCEPT ![R.serial] = "closed"]
                    ELSE R.sockState,
      raised |-> FALSE,
      outcome |-> IF hung THEN "hung" ELSE "returned"]

\* start_qemu(): p is the id of the subprocess Popen creates
start_qemu(R, p, launch, attempt, w) ==
  LET st == IF NeedsStop(R.process) THEN stop_qemu(R, w)
            ELSE [R EXCEPT !.raised = FALSE] @@ [outcome |-> "returned"]
  IN IF st.outcome = "hung" THEN st
     ELSE IF ~launch THEN [st EXCEPT !.outcome = "FileNotFoundError"]
     ELSE LET ser == ConnectLoop(<<attempt>>, [id |-> st.serial, st |-> "old"], p)
          IN [process |-> p,
              procState |-> [st.procState EXCEPT ![p] = "live"],
              serial |-> ser.id,
              sockState |-> IF ser.id = p THEN [st.sockState EXCEPT ![p] = ser.st]
                            ELSE st.sockState,
              raised |-> FALSE,
              outcome |-> IF ser.st = "conn" THEN "True" ELSE "False"]

\* the effect of a verb that ran stop_qemu / start_qemu and ended in state st
MgrApply(st) ==
  /\ process' = st.process
  /\ serial' = st.serial
  /\ procState' = st.procState
  /\ sockState' = st.sockState
  /\ lastResult' = st.outcome
  /\ mpc' = IF st.outcome = "hung" THEN "hung" ELSE "idle"
  /\ nstarts' = IF st.outcome \in {"True", "False"} THEN nstarts + 1 ELSE nstarts
  /\ ret' = NoValue
  /\ UNCHANGED <<kind, budget, output_queue, owed>>
  /\ UNCHANGED thrVars
  /\ UNCHANGED callVars

\* compile_bootloader -> (success, message), or nasm is not installed
CompileOutcomes == {"compiled", "CompileFailed", "NasmMissing"}

\* POST /compile
MgrCompile(comp) ==
  /\ kind = "manager" /\ mpc = "idle"
  /\ lastOp' = "compile"
  /\ lastResult' = comp
  /\ ret' = NoValue
  /\ UNCHANGED <<kind, output_queue, owed, mpc>>
  /\ UNCHANGED resVars
  /\ UNCHANGED thrVars
  /\ UNCHANGED callVars

\* if not success: return jsonify({'success': False, 'message': message}),
\* or the exception of a missing nasm propagates
FlashRefusedStops(comp) ==
  /\ lastResult' = comp
  /\ ret' = NoValue
  /\ process' = None /\ serial' = None
  /\ UNCHANGED <<kind, procState, sockState, nstarts, budget, output_queue, owed, mpc>>
  /\ UNCHANGED thrVars
  /\ UNCHANGED callVars
FlashRefused(comp) ==
  /\ lastResult' = comp
  /\ ret' = NoValue
  /\ UNCHANGED <<kind, output_queue, owed, mpc>>
  /\ UNCHANGED resVars
  /\ UNCHANGED thrVars
  /\ UNCHANGED callVars

\* POST /flash
MgrFlash(code, comp, launch, attempt, w) ==
  /\ kind = "manager" /\ mpc = "idle" /\ nstarts < MaxStarts
  /\ lastOp' = "flash"
  /\ IF code /\ comp # "compiled"
     THEN FlashRefused(comp)
     ELSE MgrApply(start_qemu(Resources, nstarts + 1, launch, attempt, w))

\* POST /reset
MgrReset(launch, attempt, w) ==
  /\ kind = "manager" /\ mpc = "idle" /\ nstarts < MaxStarts
  /\ lastOp' = "reset"
  /\ LET st == stop_qemu(Resources, w)
     IN IF st.outcome = "hung" THEN MgrApply(st)
        ELSE MgrApply(start_qemu(st, nstarts + 1, launch, attempt, w))

\* QEMUManager.stop_qemu called by itself
MgrStop(w) ==
  /\ kind = "manager" /\ mpc = "idle"
  /\ lastOp' = "stop_qemu"
  /\ MgrApply(stop_qemu(Resources, w))

\* POST /serial: send_serial
MgrSendSerial(err) ==
  /\ kind = "manager" /\ mpc = "idle"
  /\ lastOp' = "send_serial"
  /\ ret' = NoValue
  /\ lastResult' =
       IF serial = None THEN "False"
       ELSE IF sockState[serial] # "conn" THEN "OSError"
       ELSE IF procState[serial] = "exited" /\ err THEN "OSError"
       ELSE "True"
  /\ UNCHANGED <<kind, output_queue, owed, mpc>>
  /\ UNCHANGED resVars
  /\ UNCHANGED thrVars
  /\ UNCHANGED callVars

\* GET /serial: read_serial; data is what recv returns, <<>> for a recv that
\* returns no data.  The name socket is bound only inside start_qemu, so
\* matching an exception against socket.timeout raises NameError.
MgrReadSerial(data) ==
  /\ kind = "manager" /\ mpc = "idle"
  /\ lastOp' = "read_serial"
  /\ ret' = [tag |-> "bytes", val |-> data]
  /\ Len(data) <= budget
  /\ budget' = budget - Len(data)
  /\ IF serial = None
     THEN data = <<>> /\ lastResult' = "returned"
     ELSE IF data # <<>>
     THEN /\ sockState[serial] = "conn" /\ procState[serial] = "live"
          /\ lastResult' = "returned"
     ELSE IF sockState[serial] = "conn" /\ procState[serial] = "exited"
     THEN lastResult' = "returned"
     ELSE lastResult' = "NameError"
  /\ UNCHANGED <<kind, process, serial, procState, sockState, nstarts,
                 output_queue, owed, mpc>>
  /\ UNCHANGED thrVars
  /\ UNCHANGED callVars

\* GET /status -> running, pid
MgrStatusStale ==
  /\ kind = "manager" /\ mpc = "idle"
  /\ lastOp' = "status"
  /\ lastResult' = "returned"
  /\ ret' = [tag |-> IF process # None THEN "running" ELSE "not running",
             val |-> IF process # None THEN <<process>> ELSE <<>>]
  /\ UNCHANGED <<kind, output_queue, owed, mpc>>
  /\ UNCHANGED resVars
  /\ UNCHANGED thrVars
  /\ UNCHANGED callVars
MgrStatus ==
  /\ kind = "manager" /\ mpc = "idle"
  /\ lastOp' = "status"
  /\ lastResult' = "returned"
  /\ ret' = [tag |-> IF process # None /\ procState[process] = "live"
                     THEN "running" ELSE "not running",
             val |-> IF process # None THEN <<process>> ELSE <<>>]
  /\ UNCHANGED <<kind, output_queue, owed, mpc>>
  /\ UNCHANGED resVars
  /\ UNCHANGED thrVars
  /\ UNCHANGED callVars

\* --------------------------------------------------------- specifications
TextStreams == SeqsUpTo(Text, MaxBytes)
RawStreams == SeqsUpTo(Raw, MaxBytes)

\* the start of a qemu_runner fixture's runner: each test starts its runner once
FirstStart(timeout, launch, attempts) ==
  nstarts = 0 /\ Start(timeout, launch, attempts, "exits")

\* a start of a runner whose reader threads are followed
ReStart(timeout, attempts, w) ==
  nstarts < MaxSessions /\ Start(timeout, TRUE, attempts, w)

\* the reader threads, fed from the byte strings S, and the emulator subprocesses
Background(S) ==
  \/ \E t \in Ids : ReaderCheck(t)
  \/ \E t \in Ids, data \in S : ReaderData(t, data)
  \/ \E t \in Ids : ReaderIdle(t)
  \/ \E t \in Ids : ReaderError(t)
  \/ \E p \in Ids : ProcExit(p)

\* a QEMURunner after construction
RunnerInit == Init /\ kind = "runner"

\* Spec: one QEMURunner session with its consumers: start once, read, send, stop
Next ==
  \/ \E timeout \in 0..MaxStartTimeout, launch \in BOOLEAN :
       \E attempts \in [1..timeout -> ConnectOutcomes] :
         FirstStart(timeout, launch, attempts)
  \/ \E w \in {"exits", "timeout"} : Stop(w)
  \/ \E err \in BOOLEAN : Send(err)
  \/ \E timeout \in 0..MaxTimeout : ReadLineCall(timeout)
  \/ ReadLineGet
  \/ ReadLineEmpty
  \/ Tick
  \/ \E pat \in Patterns, timeout \in 0..MaxTimeout : ReadUntilCall(pat, timeout)
  \/ ReadUntilLoop
  \/ ReadUntilGet
  \/ ReadUntilEmpty
  \/ Background(TextStreams)

Spec == RunnerInit /\ [][Next]_vars

\* FramerSpec: QEMURunner started and stopped, its reader threads and the byte
\* streams they frame
FramerNext ==
  \/ \E timeout \in 1..MaxStartTimeout, w \in {"exits", "timeout"} :
       \E attempts \in [1..timeout -> ConnectOutcomes] :
         ReStart(timeout, attempts, w)
  \/ \E w \in {"exits", "timeout"} : Stop(w)
  \/ Background(RawStreams)

FramerSpec == RunnerInit /\ [][FramerNext]_vars

\* a step of reader thread t
ReaderStep(t) ==
  \/ ReaderCheck(t)
  \/ \E data \in RawStreams : ReaderData(t, data)
  \/ ReaderIdle(t)
  \/ ReaderError(t)

\* FramerFairSpec: FramerSpec with every reader thread scheduled again and
\* again while it can take a step, as threads of a running interpreter are
FramerFairSpec == FramerSpec /\ \A t \in Ids : WF_vars(ReaderStep(t))

\* RestartSpec: one QEMURunner started, stopped and started again, every stop
\* returning, while its output is read with read_line(timeout=0)
RestartNext ==
  \/ \E timeout \in 1..MaxStartTimeout :
       \E attempts \in [1..timeout -> ConnectOutcomes] :
         Start(timeout, TRUE, attempts, "exits")
  \/ Stop("exits")
  \/ ReadLineCall(0)
  \/ ReadLineGet
  \/ ReadLineEmpty
  \/ Background(TextStreams)

RestartSpec == RunnerInit /\ [][RestartNext]_vars

\* LifecycleSpec: the start / stop / reset / flash sequences of both session
\* objects, with silent emulators
LifecycleNext ==
  \/ \E timeout \in 0..MaxStartTimeout, launch \in BOOLEAN, w \in {"exits", "timeout"} :
       \E attempts \in [1..timeout -> ConnectOutcomes] :
         Start(timeout, launch, attempts, w)
  \/ \E w \in {"exits", "timeout"} : Stop(w)
  \/ \E t \in Ids : ReaderCheck(t)
  \/ \E t \in Ids : ReaderIdle(t)
  \/ \E t \in Ids : ReaderError(t)
  \/ \E p \in Ids : ProcExit(p)
  \/ \E comp \in CompileOutcomes : MgrCompile(comp)
  \/ \E code \in BOOLEAN, comp \in CompileOutcomes, launch \in BOOLEAN,
        attempt \in ConnectOutcomes, w \in {"exits", "never"} :
       MgrFlash(code, comp, launch, attempt, w)
  \/ \E launch \in BOOLEAN, attempt \in ConnectOutcomes, w \in {"exits", "never"} :
       MgrReset(launch, attempt, w)
  \/ \E w \in {"exits", "never"} : MgrStop(w)
  \/ \E err \in BOOLEAN : MgrSendSerial(err)
  \/ MgrReadSerial(<<>>)
  \/ MgrStatus

LifecycleSpec == Init /\ [][LifecycleNext]_vars

\* ------------------------------------------------------------ properties
Running(t) == rpc[t] \in {"loop", "recv", "pass"}
Live == {p \in Ids : procState[p] = "live"}
Connected == {s \in Ids : sockState[s] = "conn"}

\* C1: chunk-boundary independence.  Whatever the recv() results a reader got
\* its bytes in, and wherever read timeouts fell, the lines it has put and the
\* partial line it holds are those of one pass over all its bytes at once.
ChunkIndependence ==
  \A t \in Ids :
    LET whole == FrameLoop(got[t], <<>>)
    IN put[t] = whole.lines /\ buffer[t] = whole.buffer

\* a reader that got its bytes in two or more recv() results and framed a
\* non-empty line from them
ChunkIndependenceWitness ==
  \E t \in Ids :
    /\ nrecv[t] >= 2
    /\ \E i \in 1..Len(put[t]) : Len(put[t][i]) >= 2

\* C2: ordering guarantee.  Between consumer calls the queue holds exactly the
\* lines framed from the byte streams and not dequeued, in order, and what the
\* last consumer call handed to its caller is exactly the lines it dequeued,
\* which were the next lines of the byte streams: none lost, none twice.
OrderedDelivery ==
  mpc = "idle" =>
    /\ output_queue = owed
    /\ lastOp \in {"read_line", "read_until"} => ret.val = ruOwed

\* C3: start returns normally only when self.serial is a connected socket.
StartConnectsOrRaises ==
  (lastOp = "start" /\ lastResult = "returned")
    => (serial # None /\ sockState[serial] = "conn")

\* a start of either session object that failed
StartFailed ==
  \/ /\ kind = "runner" /\ lastOp = "start"
     /\ lastResult \in {"RuntimeError", "FileNotFoundError", "TimeoutExpired"}
  \/ /\ kind = "manager" /\ lastOp \in {"flash", "reset"}
     /\ lastResult \in {"False", "FileNotFoundError"}

\* C4: a start that failed leaves the session stopped: no process handle, no
\* socket, no live subprocess, no reader thread running.
FailedStartCleansUp ==
  StartFailed =>
    /\ process = None
    /\ serial = None
    /\ Live = {}
    /\ \A t \in Ids : ~Running(t)

\* C5: idempotent restart.  At no time are two subprocesses launched by the
\* session alive, nor two of its serial connections open.
IdempotentRestart ==
  /\ Cardinality(Live) <= 1
  /\ Cardinality(Connected) <= 1

\* a session restarted while running: the first subprocess has exited and the
\* first connection is closed, the second ones are live
IdempotentRestartWitness ==
  /\ nstarts >= 2
  /\ procState[1] = "exited" /\ sockState[1] = "closed"
  /\ process = 2 /\ procState[2] = "live"
  /\ serial = 2 /\ sockState[2] = "conn"

\* C6: send, read_line and read_until on a session that is not started fail
\* with the not-connected error.
NotConnectedFails ==
  (/\ mpc = "idle"
   /\ lastOp \in {"send", "read_line", "read_until"}
   /\ process = None /\ serial = None)
    => lastResult = "NotConnectedError"

\* C7: a read_line call that returns hands out the oldest queued line and
\* removes it, when there is one; it returns None, leaving the queue as it is,
\* only when the queue is empty and the timeout has run out; it does not raise.
ReadLineContract ==
  [][(mpc = "rl" /\ mpc' = "idle") =>
       /\ lastResult' = "returned"
       /\ IF output_queue # <<>>
          THEN /\ ret' = [tag |-> "line", val |-> <<Head(output_queue)>>]
               /\ output_queue' = Tail(output_queue)
          ELSE /\ ret' = NoValue
               /\ output_queue' = output_queue
               /\ now >= rlDeadline]_vars

\* read_line has returned the oldest line and later lines are still queued
ReadLineContractWitness ==
  /\ mpc = "idle" /\ lastOp = "read_line"
  /\ ret.tag = "line"
  /\ output_queue # <<>>
  /\ ret.val[1] # output_queue[1]

\* C8: read_until returns every line it removed from the queue, in order.
ReadUntilReturnsAllDequeued ==
  (mpc = "idle" /\ lastOp = "read_until") => ret.val = ruDeq

\* C9: read_until stops consuming at the first matching line.  A line that
\* contains the pattern is the last one the call dequeues and the last of the
\* list it returns with at once; the step that returns on a match removes that
\* line alone, so the lines framed after it are still queued, in order.
StopsAtFirstMatch ==
  /\ [](lastOp = "read_until" =>
          \A i \in 1..Len(ruDeq) :
            Contains(ruDeq[i], expected) =>
              /\ i = Len(ruDeq)
              /\ mpc = "idle"
              /\ ret.tag = "found"
              /\ ret.val[Len(ret.val)] = ruDeq[i])
  /\ [][(mpc = "ru_get" /\ mpc' = "idle") =>
          /\ output_queue # <<>>
          /\ Contains(Head(output_queue), expected)
          /\ output_queue' = Tail(output_queue)]_vars

\* read_until returned on a match while a line framed after the match is queued
StopsAtFirstMatchWitness ==
  /\ mpc = "idle" /\ lastOp = "read_until"
  /\ ret.tag = "found"
  /\ output_queue # <<>>

\* C10: read_until terminates.  While the call runs, less than timeout plus
\* one polling step has passed, and no polling step began after the timeout.
ReadUntilBounded ==
  mpc \in {"ru_loop", "ru_get"} =>
    /\ now < ruTimeout + Poll
    /\ mpc = "ru_get" => rlDeadline - Poll < ruTimeout

\* the call is past its timeout by less than one polling step, holds lines
\* none of which matched, and is about to return them
ReadUntilBoundedWitness ==
  /\ mpc = "ru_loop"
  /\ now > ruTimeout
  /\ lines # <<>>

\* C11: stop is idempotent.  A stop of the runner that returned has released
\* the process handle and the socket; on a runner that holds neither, stop
\* does not raise and changes no resource, so a second stop changes nothing.
StopIdempotent ==
  kind = "runner" =>
    /\ (lastOp = "stop" /\ lastResult = "returned") =>
         process = None /\ serial = None
    /\ (process = None /\ serial = None) =>
         \A w \in {"exits", "timeout"} :
           LET st == stop(w)
           IN /\ ~st.raised
              /\ st.process = None /\ st.serial = None
              /\ st.procState = procState /\ st.sockState = sockState

\* stop has returned on a runner that was started and connected
StopIdempotentWitness ==
  /\ kind = "runner" /\ lastOp = "stop" /\ lastResult = "returned"
  /\ process = None /\ serial = None
  /\ procState[1] = "exited" /\ sockState[1] = "closed"

\* C12: race-free teardown.  When stop has returned, no reader thread of the
\* runner is running.
NoReaderAfterStop ==
  (kind = "runner" /\ lastOp = "stop" /\ lastResult = "returned")
    => \A t \in Ids : ~Running(t)

\* the session holds nothing / holds a live subprocess, a connected socket and,
\* for the runner, a running reader thread
FullyStopped ==
  process = None /\ serial = None /\ \A t \in Ids : ~Running(t)
FullyStarted ==
  /\ process # None /\ procState[process] = "live"
  /\ serial # None /\ sockState[serial] = "conn"
  /\ kind = "runner" => \E t \in Ids : Running(t)

\* C13: all-or-nothing.  Whenever no call is in progress the session is fully
\* stopped or fully started.
AllOrNothing ==
  mpc = "idle" => FullyStopped \/ FullyStarted

\* the ways a verb of the manager ends by raising
MgrRaises == {"OSError", "NameError", "FileNotFoundError", "NasmMissing"}

\* C14: no operation of the manager raises: each ends with a return value.
ManagerNeverRaises ==
  kind = "manager" => lastResult \notin MgrRaises

\* C15: a flash whose compile fails changes nothing of the emulator.  The step
\* of a flash that ends with the compile failure leaves the process handle,
\* the socket, the subprocesses and the connections as they were, and launches
\* nothing.
FailedCompileKeepsEmulator ==
  [][(/\ kind = "manager"
      /\ lastOp' = "flash" /\ lastResult' = "CompileFailed"
      /\ (lastOp # "flash" \/ lastResult # "CompileFailed"))
       => /\ process' = process /\ serial' = serial
          /\ procState' = procState /\ sockState' = sockState
          /\ nstarts' = nstarts]_vars

\* a flash has ended with the compile failure while the emulator runs connected
FailedCompileKeepsEmulatorWitness ==
  /\ kind = "manager" /\ lastOp = "flash" /\ lastResult = "CompileFailed"
  /\ process # None /\ procState[process] = "live"
  /\ serial # None /\ sockState[serial] = "conn"

\* reader t is in recv on the connected socket of a started session
HealthyRecv(t) ==
  /\ rpc[t] = "recv"
  /\ serial # None /\ rsock[t] = serial
  /\ sockState[serial] = "conn" /\ procState[serial] = "live"

\* C16: read timeouts do not end the reader.  A recv of a started session that
\* returns without data leaves the reader running with its buffer and the
\* queue as they were; after the timeout the reader goes back to recv while
\* the session is started; and the lines it puts are those of its bytes framed
\* in one pass, whatever timeouts fell between them.
TimeoutsKeepReader ==
  /\ [][\A t \in Ids :
          /\ (HealthyRecv(t) /\ rpc'[t] # "recv" /\ nrecv'[t] # nrecv[t] + 1)
               => /\ rpc'[t] = "pass"
                  /\ buffer'[t] = buffer[t]
                  /\ put'[t] = put[t]
                  /\ output_queue' = output_queue
          /\ (rpc[t] = "pass" /\ rpc'[t] # "pass" /\ serial # None)
               => rpc'[t] = "recv" /\ buffer'[t] = buffer[t]]_vars
  /\ [](\A t \in Ids : put[t] = FrameLoop(got[t], <<>>).lines)

\* a recv has timed out while the reader held a partial line, and the reader
\* is still there with it
TimeoutsKeepReaderWitness ==
  \E t \in Ids :
    /\ rpc[t] = "pass" /\ buffer[t] # <<>>
    /\ serial # None /\ rsock[t] = serial /\ sockState[serial] = "conn"

\* the connection reader t was started on is closed, by stop or by the emulator
ConnectionClosed(t) == sockState[t] = "closed" \/ Eof(t)

\* C17: the reader terminates once its connection is closed.  A reader that is
\* running when the connection it was started on is closed, locally or by the
\* emulator end, is eventually not running.
ReaderTerminates ==
  \A t \in Ids : (Running(t) /\ ConnectionClosed(t)) ~> ~Running(t)

\* some reader thread has exited while the runner holds its socket: it left its
\* loop on a transport error
ReaderBroke == serial # None /\ \E t \in Ids : rpc[t] = "done"

\* C18: a transport error ends the reader quietly.  The step in which a recv
\* raises leaves the queue and the caller's thread as they were; consumer
\* calls that end after it return, read_line with the oldest queued line or
\* None and read_until with its list; and they end within their timeouts.
ReaderErrorQuiet ==
  /\ [][\A t \in Ids :
          (rpc[t] = "recv" /\ rpc'[t] = "done")
            => /\ output_queue' = output_queue
               /\ <<mpc, lastOp, lastResult, ret>>' = <<mpc, lastOp, lastResult, ret>>]_vars
  /\ [][(ReaderBroke /\ mpc = "rl" /\ mpc' = "idle")
          => /\ lastResult' = "returned"
             /\ IF output_queue # <<>>
                THEN /\ ret' = [tag |-> "line", val |-> <<Head(output_queue)>>]
                     /\ output_queue' = Tail(output_queue)
                ELSE ret' = NoValue]_vars
  /\ [][(ReaderBroke /\ mpc \in {"ru_loop", "ru_get"} /\ mpc' = "idle")
          => /\ lastResult' = "returned"
             /\ ret'.tag \in {"found", "timeout"}
             /\ ret'.val = lines']_vars
  /\ [](ReaderBroke =>
          /\ mpc \in {"rl", "ru_get"} => now <= rlDeadline
          /\ mpc \in {"ru_loop", "ru_get"} => now < ruTimeout + Poll)

\* the reader has exited on a transport error, the lines it had queued are
\* still there, and a read_line call is about to hand out the oldest
ReaderErrorQuietWitness ==
  /\ ReaderBroke
  /\ output_queue # <<>>
  /\ mpc = "rl"

\* C19: single producer.  At most one reader thread of the runner is running,
\* and a reader calls recv only on the socket of the start that created it.
SingleProducer ==
  kind = "runner" =>
    /\ Cardinality({t \in Ids : Running(t)}) <= 1
    /\ \A t \in Ids : rsock[t] # None => rsock[t] = t

\* a stop has called terminate() and is waiting, or gave up waiting, for the
\* subprocess to exit
StopWaiting ==
  \/ kind = "manager" /\ mpc = "hung"
  \/ kind = "runner" /\ lastOp \in {"stop", "start"} /\ lastResult = "TimeoutExpired"

\* C20: teardown order.  By the time a stop has terminated the subprocess the
\* serial connection of the session is closed: none is open.
CloseBeforeTerminate ==
  StopWaiting => Connected = {}

\* C21: stop is bounded.  No stop, and no flash or reset that stops, is blocked
\* for ever waiting for a subprocess that never exits.
StopNeverBlocks ==
  mpc # "hung"

\* the lines of buf as the framing is described: the bytes before each newline,
\* with trailing whitespace removed and nothing else
RECURSIVE TrailingTrimmedLines(_, _)
TrailingTrimmedLines(buf, out) ==
  LET i == IndexOf(buf, NL)
  IN IF i = 0 THEN out
     ELSE TrailingTrimmedLines(SubSeq(buf, i + 1, Len(buf)),
                               Append(out, RStrip(SubSeq(buf, 1, i - 1))))

\* C22: framing result.  The lines a reader has put are, one per newline it
\* received, the bytes before that newline with only trailing whitespace
\* removed: leading bytes are kept and empty lines are put.
FramingTrimsTrailingOnly ==
  \A t \in Ids : put[t] = TrailingTrimmedLines(got[t], <<>>)

\* C23: status.  The step of a status request reports running exactly when the
\* manager holds a handle whose subprocess has not exited, and no pid exactly
\* when it holds no handle, the pid being that of the handle; the handle is
\* never one of a subprocess launched before the latest; and after a stop_qemu
\* that returned the manager holds no handle, so status reports not running
\* and no pid.
StatusReportsHandle ==
  /\ [][(kind = "manager" /\ lastOp' = "status" /\ procState' = procState)
          => /\ lastResult' = "returned"
             /\ ret'.tag = "running" <=> (process # None /\ procState[process] = "live")
             /\ ret'.tag \in {"running", "not running"}
             /\ ret'.val = IF process = None THEN <<>> ELSE <<process>>]_vars
  /\ [](kind = "manager" =>
          /\ process \in {None, nstarts}
          /\ (lastOp = "stop_qemu" /\ lastResult = "returned") => process = None)

\* status after a restart: the second subprocess is reported running, the
\* first one has exited
StatusReportsHandleWitness ==
  /\ kind = "manager" /\ lastOp = "status"
  /\ ret = [tag |-> "running", val |-> <<2>>]
  /\ procState[1] = "exited" /\ procState[2] = "live"

\* C24: read_serial.  A read_serial made while the manager holds a connected
\* serial socket returns bytes, the empty byte string when nothing arrived
\* within the timeout, and does not raise; without a serial connection it
\* returns the empty byte string.
ReadSerialReturns ==
  [][(kind = "manager" /\ mpc = "idle" /\ lastOp' = "read_serial"
        /\ procState' = procState
        /\ (serial # None => sockState[serial] = "conn"))
       => /\ lastResult' = "returned"
          /\ ret'.tag = "bytes"
          /\ serial = None => ret'.val = <<>>]_vars

\* the number of newline bytes in s, and the bytes of s after its last newline
NewlineCount(s) == Cardinality({i \in 1..Len(s) : s[i] = NL})
AfterLastNewline(s) ==
  LET last == IF NewlineCount(s) = 0 THEN 0
              ELSE CHOOSE i \in 1..Len(s) :
                     s[i] = NL /\ \A j \in (i + 1)..Len(s) : s[j] # NL
  IN SubSeq(s, last + 1, Len(s))

\* C25: newline-terminated lines.  After every reader iteration the reader's
\* buffer holds no newline byte and is exactly the bytes received after the
\* last newline, the reader has enqueued one line per newline received (so
\* the held-back bytes were not delivered), no enqueued line contains a
\* newline byte, and a reader that ends enqueues nothing on ending.
NewlineTerminatedLines ==
  /\ [](\A t \in Ids :
          /\ \A i \in 1..Len(buffer[t]) : buffer[t][i] # NL
          /\ buffer[t] = AfterLastNewline(got[t])
          /\ Len(put[t]) = NewlineCount(got[t])
          /\ \A k \in 1..Len(put[t]) :
               \A i \in 1..Len(put[t][k]) : put[t][k][i] # NL)
  /\ [][\A t \in Ids : (Running(t) /\ rpc'[t] = "done")
                          => output_queue' = output_queue]_vars

\* a stream that ended after a delivered line, with bytes still held back by
\* the reader
NewlineTerminatedLinesWitness ==
  \E t \in Ids : /\ rpc[t] = "recv" /\ put[t] # <<>> /\ buffer[t] # <<>>
                 /\ procState[rsock[t]] = "exited"

\* the reader started with the current connection is the only reader running,
\* and that connection is open with its emulator running: the lines framed
\* from the current connection are then the lines put by that reader
OnlyCurrentReader ==
  /\ serial # None
  /\ sockState[serial] = "conn" /\ procState[serial] = "live"
  /\ \A t \in Ids : Running(t) <=> t = serial

\* C26: no leak across restarts.  A line that read_line returned while the
\* current connection is served by its own reader alone is one of the lines
\* framed from the current connection, not a line enqueued before the restart.
NoLeakAcrossRestart ==
  (/\ kind = "runner" /\ lastOp = "read_line" /\ lastResult = "returned"
   /\ ret.tag = "line" /\ OnlyCurrentReader)
    => \E i \in 1..Len(put[serial]) : ret.val = <<put[serial][i]>>
====
